---- MODULE Spec2Model ----
(***************************************************************************)
(* Personalization and ranking engine of the MindFlow recommendation       *)
(* servers (server_advanced.py, with the parts server_production.py        *)
(* duplicates): embeddings, the TTL cache in front of DynamoDB, the        *)
(* online update, and the scoring / ranking pipeline.                      *)
(*                                                                         *)
(* Reals are fixed point: a float x is the integer x * Scale.  Scores are  *)
(* in thousandths of a point, returned scores in hundredths (round(s, 2)). *)
(* Time is in seconds.                                                     *)
(***************************************************************************)
EXTENDS Integers, Sequences, FiniteSets, TLC

\* ------------------------------------------------------------ configuration

\* ServerConfig.EMBEDDING_DIM
EMBEDDING_DIM == 64

\* ServerConfig.CACHE_TTL (seconds, the default of the CACHE_TTL option)
CACHE_TTL == 300

\* Fixed-point unit of a vector component (1.0 is Scale).
Scale == 10 * 10

\* ServerConfig.LEARNING_RATE = 0.1, in tenths
LEARNING_RATE == 1

\* Field(default=20, ge=1, le=100) of RecommendationRequest.limit
LIMIT_GE == 1
LIMIT_LE == 100
LIMIT_DEFAULT == 20

\* ACTION_WEIGHTS, in tenths; .get(action_type, 0) for an unknown kind
ACTION_WEIGHTS(action_type) ==
    CASE action_type = 0 -> 2
      [] action_type = 1 -> 10
      [] action_type = 2 -> 15
      [] action_type = 3 -> 12
      [] action_type = 4 -> 13
      [] action_type = 5 -> -3
      [] action_type = 6 -> -8
      [] action_type = 7 -> -8
      [] OTHER -> 0

\* ------------------------------------------------------------ arithmetic

Abs(x) == IF x < 0 THEN -x ELSE x

Min(a, b) == IF a < b THEN a ELSE b

Max(a, b) == IF a > b THEN a ELSE b

\* a / b for b > 0, rounded to the nearest integer (halves away from zero)
RoundDiv(a, b) ==
    IF a >= 0 THEN (2 * a + b) \div (2 * b)
    ELSE -((2 * (-a) + b) \div (2 * b))

\* floor of the square root of n >= 0 (Newton's iteration from above)
RECURSIVE SqrtFrom(_, _)
SqrtFrom(n, x) ==
    LET y == (x + n \div x) \div 2
    IN  IF y >= x THEN x ELSE SqrtFrom(n, y)

ISqrt(n) == IF n <= 0 THEN 0 ELSE SqrtFrom(n, n)

Indices == 1..EMBEDDING_DIM

RECURSIVE DotFrom(_, _, _)
DotFrom(a, b, i) ==
    IF i > EMBEDDING_DIM THEN 0 ELSE a[i] * b[i] + DotFrom(a, b, i + 1)

\* np.dot(a, b), in units of 1 / Scale^2
Dot(a, b) == DotFrom(a, b, 1)

\* the square root of n >= 0, rounded to the nearest integer
Sqrt(n) == LET r == ISqrt(n) IN IF n - r * r > r THEN r + 1 ELSE r

\* np.linalg.norm(a), in units of 1 / Scale
Norm(a) == Sqrt(Dot(a, a))

\* What rounding to the resolution of the arithmetic may take from a
\* similarity (thousandths).
SimTol == 2 * 10

\* ------------------------------------------------------------ NeuralEmbedding

\* The zero vector, np.zeros(self.dim)
Zeros == [i \in Indices |-> 0]

\* The global numpy generator, seeded once with np.random.seed(42) when the
\* client is constructed, is a fixed stream; its state is the number of draws
\* made from it so far.  RandnAt(p, i) is the i-th component of the
\* randn(dim) * sqrt(2 / dim) drawn at stream position p: components of
\* variance 2 / dim, hence a norm near sqrt(2), and different positions give
\* different vectors.
RandnAt(p, i) == (((2 * p + i * i + (p \div 7) * i) % 7) - 3) * ((9 * Scale) \div 100)

\* v itself, as an explicit tuple: its components are evaluated once here and
\* not again at every use
Tuple(v) == IF v = Zeros THEN Zeros ELSE v

\* NeuralEmbedding.create_random_embedding, drawn at stream position p
create_random_embedding(p) == Tuple([i \in Indices |-> RandnAt(p, i)])

\* A record field that is not present (dict.get gives its default).
Absent == 0 - 1

\* A createdAt that datetime.fromisoformat rejects.
Unparseable == 0 - 2

\* a or b for numbers
OrNum(a, b) == IF a # 0 THEN a ELSE b

\* dict.get(field, 0)
Get0(v) == IF v = Absent THEN 0 ELSE v

\* The absent string value (dict.get(field) is None).
None == "None"

\* a or b for strings: None and '' are falsy
OrStr(a, b) == IF a # None /\ a # "" THEN a ELSE b

\* int(content.get('likes', 0) or content.get('likeCount', 0) or 0)
Likes(content) == OrNum(OrNum(Get0(content.likes), Get0(content.likeCount)), 0)

\* int(content.get('viewCount', 0) or content.get('views', 0) or 1)
Views(content) == OrNum(OrNum(Get0(content.viewCount), Get0(content.views)), 1)

\* int(content.get('commentsCount', 0) or content.get('commentCount', 0) or 0)
Comments(content) ==
    OrNum(OrNum(Get0(content.commentsCount), Get0(content.commentCount)), 0)

\* int(content.get('shares', 0) or 0)
Shares(content) == OrNum(Get0(content.shares), 0)

\* content.get('postId') or content.get('videoId') or ''
ContentIdOf(content) == OrStr(OrStr(content.postId, content.videoId), "")

\* content.get('userId') or content.get('creatorId') or ''
CreatorIdOf(content) == OrStr(OrStr(content.userId, content.creatorId), "")

\* created_at is non-empty and parses
HasCreatedAt(content) ==
    content.createdAt # Absent /\ content.createdAt # Unparseable

\* (datetime.now(tz) - created_dt).total_seconds()
SecondsOld(content, t) == t - content.createdAt

\* ((int(md5(content_id).hexdigest(), 16) >> k) & 0xFF) for k = 0..33, the
\* values md5 gives for the content ids of the model
MD5Shifted(content_id) ==
    CASE content_id = "p1" ->
           <<220, 110, 183, 91, 173, 86, 43, 21, 138, 197, 98, 177, 88, 44, 22,
             139, 197, 226, 113, 56, 156, 206, 231, 115, 185, 92, 174, 215,
             107, 53, 154, 205, 102, 179>>
      [] content_id = "p2" ->
           <<253, 126, 63, 159, 207, 231, 115, 57, 28, 142, 71, 163, 209, 232,
             116, 58, 157, 206, 103, 51, 25, 140, 70, 35, 17, 136, 68, 162,
             81, 168, 212, 234, 117, 186>>
      [] content_id = "v1" ->
           <<127, 63, 31, 143, 199, 227, 113, 184, 220, 238, 247, 123, 61, 30,
             15, 135, 67, 33, 16, 136, 68, 162, 209, 104, 180, 90, 173, 214,
             235, 245, 122, 189, 94, 47>>
      [] OTHER -> [k \in 1..34 |-> (37 * k + 11 * Len(content_id)) % 256]

\* NeuralEmbedding.create_content_embedding at time t; index i of the model is
\* index i - 1 of the code
create_content_embedding(content, t) ==
    LET likes == Likes(content)
        views == Views(content)
        comments == Comments(content)
        shares == Shares(content)
        timed == HasCreatedAt(content)
        content_id == ContentIdOf(content)
    IN  Tuple([i \in Indices |->
          CASE i = 1 -> Min((likes * Scale) \div 1000, Scale)
            [] i = 2 -> Min((views * Scale) \div 10000, Scale)
            [] i = 3 -> Min((comments * Scale) \div 100, Scale)
            [] i = 4 -> Min((shares * Scale) \div 50, Scale)
            [] i = 5 ->
                 ((likes + comments * 2 + shares * 3) * Scale) \div Max(views, 1)
            [] i = 6 ->
                 IF timed
                 THEN Max(0, Scale - RoundDiv(SecondsOld(content, t) * Scale,
                                              168 * 3600))
                 ELSE 0
            [] i = 7 ->
                 IF timed
                 THEN (((content.createdAt \div 3600) % 24) * Scale) \div 24
                 ELSE 0
            [] i = 8 ->
                 IF timed
                 THEN ((((content.createdAt \div 86400) + 3) % 7) * Scale) \div 7
                 ELSE 0
            [] i = 11 -> IF content.mediaType = "video" THEN Scale ELSE 0
            [] i = 12 -> IF content.mediaType = "image" THEN Scale ELSE 0
            [] i = 13 ->
                 IF content.mediaType \notin {"video", "image"} THEN Scale ELSE 0
            [] i >= 31 ->
                 IF content_id # ""
                 THEN (MD5Shifted(content_id)[i - 30] * Scale) \div 255
                 ELSE 0
            [] OTHER -> 0])

\* NeuralEmbedding.similarity, in thousandths
similarity(emb1, emb2) ==
    LET norm_a == Norm(emb1)
        norm_b == Norm(emb2)
    IN  IF norm_a = 0 \/ norm_b = 0
        THEN 0
        ELSE RoundDiv(1000 * Dot(emb1, emb2), norm_a * norm_b)

\* updated = current + lr * weight * (target - current); weight and lr are
\* in tenths
Moved(current, target, weight, lr) ==
    Tuple([i \in Indices |->
        current[i] + RoundDiv(lr * weight * (target[i] - current[i]), 100)])

\* updated returned as it is, whatever its norm
Unscaled(updated) == updated

\* norm = np.linalg.norm(updated); if norm > 1: updated = updated / norm
Rescaled(updated) ==
    IF Dot(updated, updated) > Scale * Scale
    THEN Tuple([i \in Indices |-> RoundDiv(updated[i] * Scale, Norm(updated))])
    ELSE updated

\* updated = current - lr * weight * (target - current)
MovedAway(current, target, weight, lr) ==
    Rescaled(Moved(current, target, 0 - weight, lr))

\* NeuralEmbedding.update_embedding; weight and lr are in tenths
update_embedding(current, target, weight, lr) ==
    Rescaled(Moved(current, target, weight, lr))

\* What rounding each of the components to the resolution of the arithmetic
\* may add to a norm: half a unit in every component.
NormEps == Sqrt(EMBEDDING_DIM) \div 2

\* ------------------------------------------------------------ state

VARIABLES
    cache,            \* AdvancedDynamoDBClient._cache: cache key -> payload
    cache_times,      \* AdvancedDynamoDBClient._cache_times: cache key -> time
    user_table,       \* the Buddylynk_UserEmbeddings table: userId -> item
    content_table,    \* the Buddylynk_ContentEmbeddings table: contentId -> item
    posts_table,      \* the Buddylynk_Posts table, in scan order
    videos_table,     \* the buddylynk-ott-videos table, in scan order
    follows_table,    \* the Buddylynk_Follows table: followerId -> followingIds
    rng,              \* state of the global numpy generator: draws made so far
    stream,           \* what np.random.random() * 5 gives at each position
    now,              \* time.time(), in seconds
    threads,          \* the background tasks running engine.learn
    put_log,          \* history: cache key -> the latest write made to it
    last              \* the call that ran last, and what it returned

vars == <<cache, cache_times, user_table, content_table, posts_table,
          videos_table, follows_table, rng, stream, now, threads, put_log,
          last>>

\* The state of an AdvancedDynamoDBClient and of the tables it writes.
DB ==
    [cache |-> cache, cache_times |-> cache_times, user_table |-> user_table,
     content_table |-> content_table, rng |-> rng, put_log |-> put_log]

\* f with key k bound to v (a dict assignment)
Assign(f, k, v) == [x \in (DOMAIN f) \cup {k} |-> IF x = k THEN v ELSE f[x]]

\* The empty dict.
EmptyDict == <<>>

\* AdvancedDynamoDBClient._cache_key: f"{table}:{key}"
CacheKey(table, key) == <<table, key>>

\* A freshness test that still serves an entry whose age equals the TTL.
IsCachedInclusive(d, cache_key, t) ==
    IF cache_key \notin DOMAIN d.cache_times
    THEN FALSE
    ELSE (t - d.cache_times[cache_key]) <= CACHE_TTL

\* AdvancedDynamoDBClient._is_cached at time t
IsCached(d, cache_key, t) ==
    IF cache_key \notin DOMAIN d.cache_times
    THEN FALSE
    ELSE (t - d.cache_times[cache_key]) < CACHE_TTL

\* self._cache_times[cache_key] = time.time(), the second statement of a cache
\* write; it completes the write of payload, which put_log records
CacheSetTime(d, cache_key, payload, t) ==
    [d EXCEPT !.cache_times = Assign(@, cache_key, t),
              !.put_log = Assign(@, cache_key, [payload |-> payload, time |-> t])]

\* The client when the payload is not written.
CacheKeepPayload(d, cache_key, payload, t) == d

\* self._cache[cache_key] = payload, the first statement of a cache write
CacheSetPayload(d, cache_key, payload, t) ==
    [d EXCEPT !.cache = Assign(@, cache_key, payload)]

\* self._cache[cache_key] = payload; self._cache_times[cache_key] = time.time()
CachePut(d, cache_key, payload, t) ==
    CacheSetTime(CacheSetPayload(d, cache_key, payload, t), cache_key, payload, t)

\* json.dumps of a list of floats, and json.loads of it: Python writes each
\* float with repr, which reads back as the same float.
JsonDumps(embedding) == [json |-> embedding]

JsonLoads(text) == text.json

\* table.put_item(Item={'userId': ..., 'embedding': json.dumps(embedding),
\* 'updatedAt': datetime.now().isoformat()}) of save_user_embedding
PutUserItem(d, user_id, embedding, t) ==
    [d EXCEPT !.user_table =
        Assign(@, user_id, [userId |-> user_id, embedding |-> JsonDumps(embedding),
                            updatedAt |-> t])]

\* AdvancedDynamoDBClient.save_user_embedding at time t; fail_put: put_item
\* raises, and the except clause prints the error
save_user_embedding(d, user_id, embedding, t, fail_put) ==
    IF fail_put
    THEN d
    ELSE CachePut(PutUserItem(d, user_id, embedding, t),
                  CacheKey("user_emb", user_id), embedding, t)

\* AdvancedDynamoDBClient.get_user_embedding at time t; fail_get: get_item
\* raises; fail_put: the put_item of the save raises.  Gives the client state
\* after the call and the embedding returned.
get_user_embedding(d, user_id, t, fail_get, fail_put) ==
    LET cache_key == CacheKey("user_emb", user_id)
    IN  IF IsCached(d, cache_key, t)
        THEN [db |-> d, ret |-> d.cache[cache_key], path |-> "cache"]
        ELSE IF ~fail_get /\ user_id \in DOMAIN d.user_table
        THEN LET embedding == JsonLoads(d.user_table[user_id].embedding)
             IN  [db |-> CachePut(d, cache_key, embedding, t),
                  ret |-> embedding, path |-> "store"]
        ELSE LET embedding == create_random_embedding(d.rng)
                 d1 == [d EXCEPT !.rng = @ + 1]
             IN  [db |-> save_user_embedding(d1, user_id, embedding, t, fail_put),
                  ret |-> embedding, path |-> "create"]

\* table.put_item(Item={'contentId': ..., ...}) of save_content_embedding
PutContentItem(d, content_id, embedding, t) ==
    [d EXCEPT !.content_table =
        Assign(@, content_id, [contentId |-> content_id,
                               embedding |-> JsonDumps(embedding),
                               updatedAt |-> t])]

\* AdvancedDynamoDBClient.save_content_embedding at time t
save_content_embedding(d, content_id, embedding, t, fail_put) ==
    IF fail_put
    THEN d
    ELSE CachePut(PutContentItem(d, content_id, embedding, t),
                  CacheKey("content_emb", content_id), embedding, t)

\* The content argument that is None (or an empty dict): "if content:" fails.
NoContent == [none |-> TRUE]

\* AdvancedDynamoDBClient.get_content_embedding at time t
get_content_embedding(d, content_id, content, t, fail_get, fail_put) ==
    LET cache_key == CacheKey("content_emb", content_id)
    IN  IF IsCached(d, cache_key, t)
        THEN [db |-> d, ret |-> d.cache[cache_key], path |-> "cache"]
        ELSE IF ~fail_get /\ content_id \in DOMAIN d.content_table
        THEN LET embedding == JsonLoads(d.content_table[content_id].embedding)
             IN  [db |-> CachePut(d, cache_key, embedding, t),
                  ret |-> embedding, path |-> "store"]
        ELSE IF content # NoContent
        THEN LET embedding == create_content_embedding(content, t)
             IN  [db |-> save_content_embedding(d, content_id, embedding, t, fail_put),
                  ret |-> embedding, path |-> "features"]
        ELSE [db |-> [d EXCEPT !.rng = @ + 1],
              ret |-> create_random_embedding(d.rng), path |-> "random"]

\* AdvancedDynamoDBClient.learn_from_interaction at time t, run without
\* interruption.  fail is the set of store calls that raise.
learn_from_interaction(d, user_id, content_id, action_type, content, t, fail) ==
    LET weight == ACTION_WEIGHTS(action_type)
        u == get_user_embedding(d, user_id, t, "user_get" \in fail,
                                "user_create" \in fail)
        c == get_content_embedding(u.db, content_id, content, t,
                                   "content_get" \in fail, "content_put" \in fail)
        updated_emb == update_embedding(u.ret, c.ret, weight, LEARNING_RATE)
    IN  [db |-> save_user_embedding(c.db, user_id, updated_emb, t,
                                    "user_put" \in fail),
         ret |-> updated_emb, user_emb |-> u.ret, content_emb |-> c.ret,
         user_path |-> u.path, content_path |-> c.path]

\* ------------------------------------------------------------ catalog reads

\* get_all_posts(limit=500), get_ott_videos(limit=200): the Limit of the scan
POSTS_SCAN_LIMIT == 500
VIDEOS_SCAN_LIMIT == 200

\* The first n items of a sequence.
Take(seq, n) == SubSeq(seq, 1, Min(Len(seq), n))

\* A read of `items` that gives them whether or not the store call raises.
ReadThrough(d, cache_key, items, t, fail) ==
    IF IsCached(d, cache_key, t)
    THEN [db |-> d, ret |-> d.cache[cache_key], cached |-> TRUE]
    ELSE [db |-> CachePut(d, cache_key, items, t), ret |-> items, cached |-> TRUE]

\* A read that, when the store call raises, caches the empty list it returns.
CacheThroughEmpty(d, cache_key, items, t, fail) ==
    IF IsCached(d, cache_key, t)
    THEN [db |-> d, ret |-> d.cache[cache_key], cached |-> TRUE]
    ELSE IF ~fail
    THEN [db |-> CachePut(d, cache_key, items, t), ret |-> items, cached |-> TRUE]
    ELSE [db |-> CachePut(d, cache_key, <<>>, t), ret |-> <<>>, cached |-> TRUE]

\* get_all_posts / get_ott_videos / get_user_follows: a cache-through read of
\* `items` (what the scan or query gives) under cache_key; fail: the store
\* call raises.  cached: whether the list returned is the one the cache holds.
CacheThrough(d, cache_key, items, t, fail) ==
    IF IsCached(d, cache_key, t)
    THEN [db |-> d, ret |-> d.cache[cache_key], cached |-> TRUE]
    ELSE IF ~fail
    THEN [db |-> CachePut(d, cache_key, items, t), ret |-> items, cached |-> TRUE]
    ELSE [db |-> d, ret |-> <<>>, cached |-> FALSE]

\* AdvancedDynamoDBClient.get_all_posts
get_all_posts(d, t, fail) ==
    CacheThrough(d, CacheKey("posts", "all"), Take(posts_table, POSTS_SCAN_LIMIT),
                 t, fail)

\* AdvancedDynamoDBClient.get_ott_videos
get_ott_videos(d, t, fail) ==
    CacheThrough(d, CacheKey("videos", "all"),
                 Take(videos_table, VIDEOS_SCAN_LIMIT), t, fail)

\* AdvancedDynamoDBClient.get_user_follows
get_user_follows(d, user_id, t, fail) ==
    CacheThrough(d, CacheKey("follows", user_id),
                 IF user_id \in DOMAIN follows_table THEN follows_table[user_id]
                 ELSE <<>>,
                 t, fail)

\* The key 'user_emb' or 'content_emb' alone, which no _cache_key(table, key)
\* gives: every key of the cache has the form f"{table}:{key}".
BareKey(table) == <<table>>

\* len(self._cache.get(table, {}))
CacheLen(d, table) ==
    IF BareKey(table) \in DOMAIN d.cache THEN Len(d.cache[BareKey(table)]) ELSE 0

\* AdvancedDynamoDBClient.get_embedding_counts
get_embedding_counts(d) == <<CacheLen(d, "user_emb"), CacheLen(d, "content_emb")>>

\* ------------------------------------------------------------ ranking

\* x in seq
InSeq(x, seq) == \E k \in 1..Len(seq) : seq[k] = x

\* round(score, 2): thousandths to hundredths, halves to the even neighbour
Round2(x) ==
    LET q == x \div 10
        r == x % 10
    IN  IF r > 5 \/ (r = 5 /\ q % 2 = 1) THEN q + 1 ELSE q

\* np.random.random() * 5 drawn at stream position p, in thousandths
RandomAt(p) == stream[(p % Len(stream)) + 1]

\* The score of content given its embedding, in thousandths, and the client
\* after the draw of the exploration noise
Scored(d, content_emb, user_emb, content, following, t) ==
    LET base == similarity(user_emb, content_emb) * 50
        engagement == Min(RoundDiv((Likes(content) * 2 + Comments(content) * 3) * 20000,
                                   Max(Views(content), 1)),
                          20000)
        follow == IF InSeq(CreatorIdOf(content), following) THEN 25000 ELSE 0
        recency == IF HasCreatedAt(content)
                   THEN Max(0, 15000 - RoundDiv(SecondsOld(content, t) * 1000, 4 * 3600))
                   ELSE 0
    IN  [db |-> [d EXCEPT !.rng = @ + 1],
         ret |-> base + engagement + follow + recency + RandomAt(d.rng)]

\* AdvancedRecommendationEngine.score_content at time t, in thousandths
score_content(d, user_emb, content, following, t, fail) ==
    LET c == get_content_embedding(d, ContentIdOf(content), content, t,
                                   "content_get" \in fail, "content_put" \in fail)
    IN  Scored(c.db, c.ret, user_emb, content, following, t)

\* p['_type'] = kind; p['contentId'] = p.get(id_field, '') for every item
Annotate(items, kind) ==
    [k \in 1..Len(items) |->
        [items[k] EXCEPT !.type = kind,
                         !.contentId = IF kind = "post"
                                       THEN (IF items[k].postId = None THEN ""
                                             ELSE items[k].postId)
                                       ELSE (IF items[k].videoId = None THEN ""
                                             ELSE items[k].videoId)]]

\* A filter that looks at the userId attribute only.
RECURSIVE FilterUserIdOnly(_, _)
FilterUserIdOnly(seq, user_id) ==
    IF seq = <<>> THEN <<>>
    ELSE LET c == Head(seq)
             rest == FilterUserIdOnly(Tail(seq), user_id)
         IN  IF c.userId # user_id THEN <<c>> \o rest ELSE rest

\* [c for c in all_content if c.get('userId') != user_id and
\* c.get('creatorId') != user_id]
RECURSIVE Filter(_, _)
Filter(seq, user_id) ==
    IF seq = <<>> THEN <<>>
    ELSE LET c == Head(seq)
             rest == Filter(Tail(seq), user_id)
         IN  IF c.userId # user_id /\ c.creatorId # user_id
             THEN <<c>> \o rest
             ELSE rest

\* scored.append({...}) for content, whose score is s
Entry(content, s) ==
    [contentId |-> content.contentId,
     type |-> content.type,
     score |-> Round2(s),
     creatorId |-> OrStr(content.userId, content.creatorId)]

\* entry followed by the entries of rest, and the client rest leaves
Prepend(entry, rest) == [db |-> rest.db, scored |-> <<entry>> \o rest.scored]

\* The scoring loop of get_recommendations over all_content[k..]: ScoreFrom
\* scores all_content[k], ScoreNext appends its entry and goes on from k + 1
RECURSIVE ScoreFrom(_, _, _, _, _, _, _)
RECURSIVE ScoreNext(_, _, _, _, _, _, _)
ScoreFrom(d, user_emb, following, all_content, k, t, fail) ==
    IF k > Len(all_content)
    THEN [db |-> d, scored |-> <<>>]
    ELSE ScoreNext(score_content(d, user_emb, all_content[k], following, t, fail),
                   user_emb, following, all_content, k, t, fail)

ScoreNext(s, user_emb, following, all_content, k, t, fail) ==
    Prepend(Entry(all_content[k], s.ret),
            ScoreFrom(s.db, user_emb, following, all_content, k + 1, t, fail))

\* An insertion that puts entry before the entries of its own score.
RECURSIVE InsertDescUnstable(_, _)
InsertDescUnstable(sorted, entry) ==
    IF sorted = <<>> THEN <<entry>>
    ELSE IF Head(sorted).score > entry.score
    THEN <<Head(sorted)>> \o InsertDescUnstable(Tail(sorted), entry)
    ELSE <<entry>> \o sorted

\* sorted with entry put in: after every entry whose score is not below its own
RECURSIVE InsertDesc(_, _)
InsertDesc(sorted, entry) ==
    IF sorted = <<>> THEN <<entry>>
    ELSE IF Head(sorted).score >= entry.score
    THEN <<Head(sorted)>> \o InsertDesc(Tail(sorted), entry)
    ELSE <<entry>> \o sorted

\* scored.sort(key=lambda x: x['score'], reverse=True): a stable sort, equal
\* scores keep the order they had
RECURSIVE SortDesc(_, _)
SortDesc(scored, k) ==
    IF k = 0 THEN <<>> ELSE InsertDesc(SortDesc(scored, k - 1), scored[k])

\* scored[:limit] as Python slices: a negative limit counts from the end
Slice(scored, limit) ==
    IF limit >= 0
    THEN Take(scored, limit)
    ELSE Take(scored, Max(Len(scored) + limit, 0))

\* for p in posts: p['_type'] = kind; p['contentId'] = ...: r is the answer of
\* a catalog read, and the items annotated are the ones the cache holds when
\* the read left them there
AnnotateRead(r, cache_key, kind) ==
    [db |-> IF r.cached
            THEN [r.db EXCEPT !.cache = Assign(@, cache_key, Annotate(r.ret, kind))]
            ELSE r.db,
     ret |-> Annotate(r.ret, kind)]

\* if content_type in ["all", "posts"]: the posts gathered
GatherPosts(d, content_type, t, fail) ==
    IF content_type \in {"all", "posts"}
    THEN AnnotateRead(get_all_posts(d, t, "posts" \in fail), CacheKey("posts", "all"),
                      "post")
    ELSE [db |-> d, ret |-> <<>>]

\* if content_type in ["all", "videos"]: the videos gathered
GatherVideos(d, content_type, t, fail) ==
    IF content_type \in {"all", "videos"}
    THEN AnnotateRead(get_ott_videos(d, t, "videos" \in fail), CacheKey("videos", "all"),
                      "video")
    ELSE [db |-> d, ret |-> <<>>]

\* The end of get_recommendations: sort the entries scored and cut at limit
Ranking(s, limit) ==
    [db |-> s.db,
     ret |-> Slice(SortDesc(s.scored, Len(s.scored)), limit),
     scored |-> s.scored]

\* get_recommendations from the videos gathered (v) on: filter, score, rank
RankGathered(user_emb, following, posts, v, user_id, limit, t, fail) ==
    Ranking(ScoreFrom(v.db, user_emb, following, Filter(posts \o v.ret, user_id), 1, t,
                      fail),
            limit)

\* get_recommendations from the posts gathered (p) on
RankWithPosts(user_emb, following, p, user_id, limit, content_type, t, fail) ==
    RankGathered(user_emb, following, p.ret, GatherVideos(p.db, content_type, t, fail),
                 user_id, limit, t, fail)

\* get_recommendations from the follow list read (f) on
RankWithFollows(user_emb, f, user_id, limit, content_type, t, fail) ==
    RankWithPosts(user_emb, f.ret, GatherPosts(f.db, content_type, t, fail), user_id,
                  limit, content_type, t, fail)

\* get_recommendations from the user embedding read (u) on
RankWithUser(u, user_id, limit, content_type, t, fail) ==
    RankWithFollows(u.ret, get_user_follows(u.db, user_id, t, "follows" \in fail),
                    user_id, limit, content_type, t, fail)

\* AdvancedRecommendationEngine.get_recommendations at time t
get_recommendations(d, user_id, limit, content_type, t, fail) ==
    RankWithUser(get_user_embedding(d, user_id, t, "user_get" \in fail,
                                    "user_create" \in fail),
                 user_id, limit, content_type, t, fail)

\* ------------------------------------------------------------ inputs

\* Start of the clock (seconds), late enough for a record 200 hours old.
NowStart == 1000 * 1000

\* Seconds one Tick adds to the clock.
TickStep == 150

\* Ticks the clock may make.
MaxTicks == 2

\* Calls a behaviour may make.
MaxCalls == 2

UserIds == {"u1", "u2"}

\* A content record; the fields the code reads, Absent / None where the item
\* has no such attribute.  type and contentId are the '_type' and 'contentId'
\* keys get_recommendations adds.
Record(postId, videoId, userId, creatorId, likes, views, comments, createdAt, mediaType) ==
    [postId |-> postId, videoId |-> videoId, userId |-> userId,
     creatorId |-> creatorId, likes |-> likes, likeCount |-> Absent,
     viewCount |-> views, views |-> Absent, commentsCount |-> comments,
     commentCount |-> Absent, shares |-> Absent, createdAt |-> createdAt,
     mediaType |-> mediaType, type |-> None, contentId |-> None]

\* An item with none of the optional attributes.
BareRecord(userId) ==
    Record(None, None, userId, None, Absent, Absent, Absent, Absent, "text")

\* The catalogs a behaviour may start from: posts and videos in scan order.
Catalogs ==
    {[posts |-> <<Record("p1", None, "u1", None, 10, 100, 2, NowStart, "image"),
                  Record("p2", None, "u2", None, 10, 100, 2,
                         NowStart - 200 * 3600, "image")>>,
      videos |-> <<Record(None, "v1", None, "u1", 5, 50, 0, Unparseable, "video")>>],
     [posts |-> <<BareRecord("u3"), BareRecord(None)>>,
      videos |-> <<BareRecord("u3")>>],
     [posts |-> <<>>, videos |-> <<>>]}

\* The follow graph: u1 follows u2.
Follows == [u \in {"u1"} |-> <<"u2">>]

\* Values of np.random.random() * 5, in thousandths.
NoiseVals == {0, 4996}

\* Length of the period of the modelled stream of np.random.random() values.
StreamLen == 3

\* The streams a behaviour may start from: at most one high value, not first.
Streams ==
    {s \in [1..StreamLen -> NoiseVals] :
        s[1] = 0 /\ Cardinality({k \in 1..StreamLen : s[k] # 0}) <= 1}

\* ------------------------------------------------------------ handlers

\* The threads of the pool that run background tasks.
ThreadIds == {"t1", "t2"}

\* A thread that runs no task.
Idle == [pc |-> "idle"]

\* The client state after a call becomes the state.
Commit(d) ==
    /\ cache' = d.cache
    /\ cache_times' = d.cache_times
    /\ user_table' = d.user_table
    /\ content_table' = d.content_table
    /\ rng' = d.rng
    /\ put_log' = d.put_log

\* What no handler writes: the catalog tables and the generator's stream.
Catalog == <<posts_table, videos_table, follows_table, stream>>

\* Calls made so far in this behaviour.
Calls == last.n

\* The state after construction (np.random.seed(42), empty caches) over the
\* catalog c and the stream s; the embedding tables hold no items yet.
InitWith(c, s) ==
    /\ threads = [th \in ThreadIds |-> Idle]
    /\ put_log = EmptyDict
    /\ cache = EmptyDict
    /\ cache_times = EmptyDict
    /\ user_table = EmptyDict
    /\ content_table = EmptyDict
    /\ posts_table = c.posts
    /\ videos_table = c.videos
    /\ follows_table = Follows
    /\ rng = 0
    /\ stream = s
    /\ now = NowStart
    /\ last = [op |-> "init", n |-> 0]

Init == InitWith(CHOOSE c \in Catalogs : c.posts = <<>>, [k \in 1..StreamLen |-> 0])

\* The clock advances.
Tick ==
    /\ now < NowStart + MaxTicks * TickStep
    /\ now' = now + TickStep
    /\ last' = [op |-> "tick", n |-> last.n]
    /\ UNCHANGED <<cache, cache_times, user_table, content_table, rng, put_log,
                   Catalog, threads>>

\* GET /api/user/{user_id}/embedding: db.get_user_embedding(user_id)
GetUserEmbedding(user_id, fail) ==
    /\ Calls < MaxCalls
    /\ LET r == get_user_embedding(DB, user_id, now, "user_get" \in fail,
                                   "user_create" \in fail)
       IN  /\ Commit(r.db)
           /\ last' = [op |-> "get_user", n |-> last.n + 1, user_id |-> user_id,
                       fail |-> fail, ret |-> r.ret, path |-> r.path]
    /\ UNCHANGED <<now, Catalog, threads>>

\* POST /api/learn: the background task engine.learn(user_id, content_id,
\* action_type), which passes no content record
Learn(user_id, content_id, action_type, fail) ==
    /\ Calls < MaxCalls
    /\ LET r == learn_from_interaction(DB, user_id, content_id, action_type,
                                       NoContent, now, fail)
       IN  /\ Commit(r.db)
           /\ last' = [op |-> "learn", n |-> last.n + 1, user_id |-> user_id,
                       content_id |-> content_id, action_type |-> action_type,
                       fail |-> fail, ret |-> r.ret, user_emb |-> r.user_emb,
                       content_emb |-> r.content_emb, user_path |-> r.user_path,
                       content_path |-> r.content_path]
    /\ UNCHANGED <<now, Catalog, threads>>

\* engine.get_recommendations as a route calls it; the response carries the
\* list returned (scored, the entries before the sort, is kept beside it)
Recommend(op, user_id, limit, content_type, fail) ==
    LET r == get_recommendations(DB, user_id, limit, content_type, now, fail)
    IN  /\ Commit(r.db)
        /\ last' = [op |-> op, n |-> last.n + 1, status |-> 200,
                    user_id |-> user_id, limit |-> limit,
                    content_type |-> content_type, fail |-> fail,
                    ret |-> r.ret, scored |-> r.scored]

\* GET /api/recommendations/{user_id}?limit=: limit is any int, the content
\* type is the default of get_recommendations
RecommendationsGet(user_id, limit, fail) ==
    /\ Calls < MaxCalls
    /\ Recommend("GET", user_id, limit, "all", fail)
    /\ UNCHANGED <<now, Catalog, threads>>

\* POST /api/recommendations: the body is a RecommendationRequest, which
\* FastAPI rejects with 422 when limit is not within ge=1, le=100
RecommendationsPost(user_id, limit, content_type, fail) ==
    /\ Calls < MaxCalls
    /\ IF limit < LIMIT_GE \/ limit > LIMIT_LE
       THEN /\ last' = [op |-> "POST", n |-> last.n + 1, status |-> 422,
                        user_id |-> user_id, limit |-> limit,
                        content_type |-> content_type, fail |-> fail,
                        ret |-> <<>>, scored |-> <<>>]
            /\ UNCHANGED <<cache, cache_times, user_table, content_table, rng,
                           put_log>>
       ELSE Recommend("POST", user_id, limit, content_type, fail)
    /\ UNCHANGED <<now, Catalog, threads>>

\* GET /health: health_check, which reports db.get_embedding_counts(); the
\* request changes nothing and is not counted among the calls
HealthCheck ==
    /\ last.op \in {"get_user", "learn"}
    /\ last' = [op |-> "health", n |-> last.n, ret |-> get_embedding_counts(DB)]
    /\ UNCHANGED <<cache, cache_times, user_table, content_table, rng, put_log, now,
                   Catalog, threads>>

\* Faults of the calls of the profile specification.
ProfileFaults == {{}, {"user_get"}, {"user_create"}}

\* Faults of a learning call.
LearnFaults == {{}, {"user_put"}}

\* Action kinds reported: LIKE, SKIP, and a kind outside the table.
ActionTypes == {1, 5, 9}

\* Content ids reported to /api/learn.
LearnContentIds == {"p1"}

Next ==
    \/ Tick
    \/ HealthCheck
    \/ \E u \in UserIds, fail \in ProfileFaults : GetUserEmbedding(u, fail)
    \/ \E u \in UserIds, c \in LearnContentIds, a \in ActionTypes,
          fail \in LearnFaults :
          Learn(u, c, a, fail)

\* The profile store and the learning loop, one call at a time.
Spec == Init /\ [][Next]_vars

\* ------------------------------------------------------------ ranking requests

\* Limits of GET requests: negative, truncating, the default.
GetLimits == {0 - 1, 2, LIMIT_DEFAULT}

\* Limits of POST requests: below the bounds, within, above.
PostLimits == {LIMIT_GE - 1, LIMIT_GE, LIMIT_LE + 1}

\* Content-type filters of POST requests; "reels" is none of the three kinds.
ContentTypes == {"all", "posts", "videos", "reels"}

\* Faults of a ranking request.
RankFaults == {{}, {"user_get"}}

\* Users of POST requests.
PostUserIds == {"u1"}

InitRank == \E c \in Catalogs, s \in Streams : InitWith(c, s)

NextRank ==
    \/ Tick
    \/ \E u \in UserIds, limit \in GetLimits, fail \in RankFaults :
          RecommendationsGet(u, limit, fail)
    \/ \E u \in PostUserIds, limit \in PostLimits, ct \in ContentTypes :
          RecommendationsPost(u, limit, ct, {})
    \/ \E u \in UserIds, fail \in RankFaults : GetUserEmbedding(u, fail)

\* The ranking requests of both routes, one at a time.
SpecRank == InitRank /\ [][NextRank]_vars

\* ------------------------------------------------------------ store failures

\* The store calls of get_recommendations a caller can see fail: the read and
\* the write of the user embedding, the follow query, the two scans.
StoreCalls == {"user_get", "user_create", "follows", "posts", "videos"}

\* The store calls of get_content_embedding and save_content_embedding.
ContentStoreCalls == {"content_get", "content_put"}

\* The combinations of failing store calls of a request.
StoreFaults == (SUBSET StoreCalls) \cup {StoreCalls \cup ContentStoreCalls}

InitFaults == \E c \in Catalogs : InitWith(c, [k \in 1..StreamLen |-> 0])

NextFaults ==
    \/ Tick
    \/ \E fail \in StoreFaults : RecommendationsGet("u1", LIMIT_DEFAULT, fail)

\* Ranking requests under every combination of failing store calls.
SpecFaults == InitFaults /\ [][NextFaults]_vars

\* ------------------------------------------------------------ reads

\* get_user_behavior(user_id, days=30, limit=200) of server_production.py
BEHAVIOR_DAYS == 30
BEHAVIOR_LIMIT == 200

\* An item of the Buddylynk_UserBehavior table; hour is Absent where the item
\* has no such attribute, timestamp is in seconds.
BehaviorItem(contentId, actionType, contentOwnerId, hour, watchTime, timestamp) ==
    [contentId |-> contentId, actionType |-> actionType,
     contentOwnerId |-> contentOwnerId, hour |-> hour, watchTime |-> watchTime,
     timestamp |-> timestamp]

\* The Buddylynk_UserBehavior table, the items of a user most recent first:
\* u1 liked p2 at 13 h and viewed v1 at 9 h, u2 viewed p1 at 9 h, skipped an
\* item recorded without an hour, and has an item older than 30 days.
Behaviors ==
    [u \in {"u1", "u2"} |->
        IF u = "u1"
        THEN <<BehaviorItem("p2", 1, "u2", 13, 0, NowStart - 600),
               BehaviorItem("v1", 0, "u1", 9, 90, NowStart - 4 * 3600)>>
        ELSE <<BehaviorItem("p1", 0, "u1", 9, 30, NowStart - 4 * 3600),
               BehaviorItem("p2", 5, "u2", Absent, 0, NowStart - 3600),
               BehaviorItem("v1", 2, "u1", 13, 0, NowStart - 40 * 86400)>>]

\* Key('timestamp').gte(start_time): the items not older than days at time t
RECURSIVE Since(_, _)
Since(items, start_time) ==
    IF items = <<>> THEN <<>>
    ELSE IF Head(items).timestamp >= start_time
    THEN <<Head(items)>> \o Since(Tail(items), start_time)
    ELSE Since(Tail(items), start_time)

\* What the query of get_user_behavior gives at time t.
BehaviorQuery(user_id, t) ==
    IF user_id \in DOMAIN Behaviors
    THEN Take(Since(Behaviors[user_id], t - BEHAVIOR_DAYS * 86400), BEHAVIOR_LIMIT)
    ELSE <<>>

\* The cache key of get_user_behavior: 'behavior', f"{user_id}:{days}"
BehaviorKey(user_id) == CacheKey("behavior", <<user_id, BEHAVIOR_DAYS>>)

\* DynamoDBClient.get_user_behavior of server_production.py, whose client
\* caches as the advanced one does
get_user_behavior(d, user_id, t, fail) ==
    CacheThrough(d, BehaviorKey(user_id), BehaviorQuery(user_id, t), t, fail)

\* How a read of cache_key is answered: from the cache, by the store, or by
\* the except branch.
ReadPath(d, cache_key, t, fail) ==
    IF IsCached(d, cache_key, t) THEN "cache"
    ELSE IF fail THEN "failed"
    ELSE "store"

\* The path of the read the last call made, when it read cache_key.
PrevPath(cache_key) ==
    IF last.op = "read" /\ last.key = cache_key THEN last.path ELSE "none"

\* A call of one of the reads: r is what it answers
Read(cache_key, r, fail) ==
    /\ Calls < MaxCalls
    /\ Commit(r.db)
    /\ last' = [op |-> "read", n |-> last.n + 1, key |-> cache_key, fail |-> fail,
                ret |-> r.ret, path |-> ReadPath(DB, cache_key, now, fail),
                prev |-> PrevPath(cache_key)]
    /\ UNCHANGED <<now, Catalog, threads>>

\* db.get_all_posts()
GetAllPosts(fail) == Read(CacheKey("posts", "all"), get_all_posts(DB, now, fail), fail)

\* db.get_ott_videos()
GetOttVideos(fail) == Read(CacheKey("videos", "all"), get_ott_videos(DB, now, fail), fail)

\* db.get_user_follows(user_id)
GetUserFollows(user_id, fail) ==
    Read(CacheKey("follows", user_id), get_user_follows(DB, user_id, now, fail), fail)

\* db.get_user_behavior(user_id) of the production server
GetUserBehavior(user_id, fail) ==
    Read(BehaviorKey(user_id), get_user_behavior(DB, user_id, now, fail), fail)

InitReads ==
    \E c \in Catalogs : c.posts # <<>> /\ InitWith(c, [k \in 1..StreamLen |-> 0])

NextReads ==
    \/ Tick
    \/ \E fail \in BOOLEAN : GetAllPosts(fail)
    \/ \E fail \in BOOLEAN : GetOttVideos(fail)
    \/ \E u \in UserIds, fail \in BOOLEAN : GetUserFollows(u, fail)
    \/ \E u \in UserIds, fail \in BOOLEAN : GetUserBehavior(u, fail)

\* The catalog, follow and behaviour reads, one call at a time.
SpecReads == InitReads /\ [][NextReads]_vars

\* ------------------------------------------------------------ embedding and scoring functions

\* The methods of NeuralEmbedding and score_content applied to drawn inputs.

\* A counter that int() rejects: a non-numeric string, a list, a map.
Malformed == 0 - 3

\* One of the int(...) conversions of create_content_embedding raises: the value
\* the or-chain of likes, views, comments or shares selects is not a number.
FeatureCountersRaise(content) ==
    Malformed \in {Likes(content), Views(content), Comments(content), Shares(content)}

\* One of the int(...) conversions of score_content raises.
ScoreCountersRaise(content) ==
    Malformed \in {Likes(content), Views(content), Comments(content)}

\* get_content_embedding finds the embedding neither in the cache nor in the
\* store and builds it: if content: create_content_embedding(content)
NeedsFeatures(d, content, t) ==
    /\ ~IsCached(d, CacheKey("content_emb", ContentIdOf(content)), t)
    /\ ContentIdOf(content) \notin DOMAIN d.content_table

\* score_content(user_emb, content, following) raises: no try encloses the
\* int(...) conversions of either method
score_content_raises(d, content, t) ==
    \/ NeedsFeatures(d, content, t) /\ FeatureCountersRaise(content)
    \/ ScoreCountersRaise(content)

\* A post with the counters 10 likes, 100 views, 2 comments, created at time c.
PostCreatedAt(postId, c) == Record(postId, None, "u2", None, 10, 100, 2, c, "image")

\* A candidate created now and one created 200 hours ago, at time t.
NewerPost(t) == PostCreatedAt("p1", t)

OlderPost(t) == PostCreatedAt("p2", t - 200 * 3600)

\* A video with 10 likes and 2 comments that has no view counter.
UnviewedVideo(t) == Record(None, "v1", None, "u2", 10, Absent, 2, t, "video")

\* A post whose likes attribute is not a number.
MalformedPost(t) == Record("p1", None, "u2", None, Malformed, 100, 2, t, "image")

\* The content records the functions are applied to at time t.
ScoreRecords(t) ==
    {NewerPost(t), OlderPost(t), UnviewedVideo(t), MalformedPost(t), BareRecord("u3")}

\* Stream positions the user embeddings are drawn at.
UserDraws == 0..3

\* A text post without an id.
TextPost == Record(None, None, "u3", None, 40, 100, 2, Absent, "text")

\* The vectors update_embedding starts from at time t: two drawn embeddings,
\* and a vector close to the embedding of an item with no attributes.
UpdateStarts(t) ==
    {create_random_embedding(0), create_random_embedding(1),
     create_content_embedding(TextPost, t)}

\* The content records whose embeddings update_embedding moves towards.
UpdateTargets(t) ==
    {NewerPost(t), OlderPost(t), UnviewedVideo(t), BareRecord("u3")}

\* Weights (tenths): those of action types 0, 1, 2, 6, an unknown kind, and 3.0.
UpdateWeights == {ACTION_WEIGHTS(a) : a \in {0, 1, 2, 6, 9}} \cup {30}

\* Learning rates (tenths): the configured one, and 0.9.
UpdateRates == {LEARNING_RATE, 9}

\* neural.create_content_embedding(content)
CreateContentEmbedding(content) ==
    /\ Calls < MaxCalls
    /\ last.op # "update"
    /\ last' = [op |-> "features", n |-> last.n + 1, content |-> content,
                raised |-> FeatureCountersRaise(content),
                ret |-> IF FeatureCountersRaise(content) THEN Zeros
                        ELSE create_content_embedding(content, now)]
    /\ UNCHANGED <<cache, cache_times, user_table, content_table, rng, put_log, now,
                   Catalog, threads>>

\* The client after a score_content that raised: what get_content_embedding
\* did when it returned a cached or stored embedding, else nothing
AfterRaise(d, content, t) ==
    IF NeedsFeatures(d, content, t) THEN d
    ELSE get_content_embedding(d, ContentIdOf(content), content, t, FALSE, FALSE).db

\* engine.score_content(user_emb, content, []) for the user embedding drawn at p
ScoreContent(p, content) ==
    /\ Calls < MaxCalls
    /\ last.op # "update"
    /\ IF score_content_raises(DB, content, now)
       THEN /\ Commit(AfterRaise(DB, content, now))
            /\ last' = [op |-> "score", n |-> last.n + 1, content |-> content,
                        raised |-> TRUE, ret |-> 0]
       ELSE LET r == score_content(DB, create_random_embedding(p), content, <<>>, now, {})
            IN  /\ Commit(r.db)
                /\ last' = [op |-> "score", n |-> last.n + 1, content |-> content,
                            raised |-> FALSE, ret |-> r.ret]
    /\ UNCHANGED <<now, Catalog, threads>>

\* The scores of newer and then of older, as the loop of get_recommendations
\* computes them one after the other
PairScored(first, older, user_emb, t) ==
    [db |-> score_content(first.db, user_emb, older, <<>>, t, {}).db,
     newer |-> first.ret,
     older |-> score_content(first.db, user_emb, older, <<>>, t, {}).ret]

\* The user vectors the pair is scored for at time t: drawn embeddings, and
\* the unit vector along the embedding of the older candidate (what repeated
\* positive interactions with it converge to).
PairUsers(t) ==
    {create_random_embedding(p) : p \in UserDraws}
        \cup {Rescaled(create_content_embedding(OlderPost(t), t))}

\* engine.score_content for a candidate created now and then for one created
\* 200 hours ago, for the user vector user_emb and no follows
ScorePair(user_emb) ==
    /\ Calls < MaxCalls
    /\ last.op # "update"
    /\ LET r == PairScored(score_content(DB, user_emb, NewerPost(now), <<>>, now, {}),
                           OlderPost(now), user_emb, now)
       IN  /\ Commit(r.db)
           /\ last' = [op |-> "pair", n |-> last.n + 1, user |-> user_emb,
                       newer |-> r.newer, older |-> r.older,
                       noise |-> <<RandomAt(rng), RandomAt(rng + 1)>>]
    /\ UNCHANGED <<now, Catalog, threads>>

\* What update_embedding was applied to, and what it returned.
Updated(n, current, target, weight, lr) ==
    [op |-> "update", n |-> n, current |-> current, target |-> target,
     weight |-> weight, lr |-> lr,
     ret |-> update_embedding(current, target, weight, lr)]

\* neural.update_embedding(current, target, weight, lr) for the embedding of
\* content as target
UpdateEmbedding(current, content, weight, lr) ==
    /\ last.op = "init"
    /\ last' = Updated(last.n + 1, current, create_content_embedding(content, now),
                       weight, lr)
    /\ UNCHANGED <<cache, cache_times, user_table, content_table, rng, put_log, now,
                   Catalog, threads>>

\* neural.update_embedding again, on the embedding the last call returned
UpdateAgain ==
    /\ Calls < MaxCalls
    /\ last.op = "update"
    /\ last' = Updated(last.n + 1, last.ret, last.target, last.weight, last.lr)
    /\ UNCHANGED <<cache, cache_times, user_table, content_table, rng, put_log, now,
                   Catalog, threads>>

InitScore ==
    \E s \in Streams : InitWith(CHOOSE c \in Catalogs : c.posts = <<>>, s)

NextScore ==
    \/ \E content \in ScoreRecords(now) : CreateContentEmbedding(content)
    \/ \E p \in {0, 1}, content \in ScoreRecords(now) : ScoreContent(p, content)
    \/ \E user_emb \in PairUsers(now) : ScorePair(user_emb)
    \/ \E current \in UpdateStarts(now), content \in UpdateTargets(now),
          weight \in UpdateWeights, lr \in UpdateRates :
          UpdateEmbedding(current, content, weight, lr)
    \/ UpdateAgain

\* The embedding and scoring functions, applied to drawn inputs.
SpecScore == InitScore /\ [][NextScore]_vars

\* ------------------------------------------------------------ production scoring

\* ACTION_WEIGHTS of server_production.py, in tenths; .get(action, 0) for an
\* unknown kind
PRODUCTION_ACTION_WEIGHTS(action) ==
    CASE action = 0 -> 10
      [] action = 1 -> 30
      [] action = 2 -> 50
      [] action = 3 -> 40
      [] action = 4 -> 40
      [] action = 5 -> -5
      [] action = 6 -> -20
      [] action = 7 -> -20
      [] OTHER -> 0

\* The int n as a dict key, and the str str(n) as a dict key: an int and a
\* str are never equal, and never hash to the same entry.
IntKey(n) == <<"int", n>>

StrKey(n) == <<"str", n>>

\* dict.get(key, default)
DictGet(dict, key, default) == IF key \in DOMAIN dict THEN dict[key] ELSE default

\* hour = int(item.get('hour', 12))
HourOfItem(item) == IF item.hour = Absent THEN 12 ELSE item.hour

\* content_scores[content_id] after the loop, in thousandths: the weights of
\* the items of content_id and their watch-time bonuses
RECURSIVE ContentScore(_, _)
ContentScore(behavior, content_id) ==
    IF behavior = <<>> THEN 0
    ELSE (IF Head(behavior).contentId = content_id
          THEN PRODUCTION_ACTION_WEIGHTS(Head(behavior).actionType) * 100
               + (IF Head(behavior).watchTime > 0
                  THEN Min(RoundDiv(Head(behavior).watchTime * 1000, 60), 1000) * 2
                  ELSE 0)
          ELSE 0)
         + ContentScore(Tail(behavior), content_id)

\* creator_scores[creator_id] after the loop, in thousandths
RECURSIVE CreatorScore(_, _)
CreatorScore(behavior, creator_id) ==
    IF behavior = <<>> THEN 0
    ELSE (IF Head(behavior).contentOwnerId = creator_id
          THEN PRODUCTION_ACTION_WEIGHTS(Head(behavior).actionType) * 50
          ELSE 0)
         + CreatorScore(Tail(behavior), creator_id)

\* hour_activity[hour] after the loop
RECURSIVE HourActivity(_, _)
HourActivity(behavior, hour) ==
    IF behavior = <<>> THEN 0
    ELSE (IF HourOfItem(Head(behavior)) = hour THEN 1 ELSE 0)
         + HourActivity(Tail(behavior), hour)

\* RecommendationEngine.compute_user_preferences
compute_user_preferences(behavior) ==
    [content |-> [c \in {behavior[k].contentId : k \in 1..Len(behavior)} |->
                     ContentScore(behavior, c)],
     creators |-> [c \in {behavior[k].contentOwnerId : k \in 1..Len(behavior)} \ {""} |->
                      CreatorScore(behavior, c)],
     active_hours |-> [h \in {IntKey(HourOfItem(behavior[k])) : k \in 1..Len(behavior)} |->
                          HourActivity(behavior, h[2])],
     total_interactions |-> Len(behavior)]

\* current_hour = datetime.now().hour at time t
CurrentHour(t) == (t \div 3600) % 24

\* The score of the production score_content before the current-hour
\* matching, with the later terms added, in thousandths
ProductionBase(content, preferences, following, t, noise) ==
    Min(RoundDiv((Likes(content) * 2 + Comments(content) * 3 + Shares(content) * 4)
                     * 10000,
                 Max(Views(content), 1)),
        30000)
    + (IF InSeq(CreatorIdOf(content), following) THEN 25000 ELSE 0)
    + Min(DictGet(preferences.creators, CreatorIdOf(content), 0) * 5, 20000)
    + (IF HasCreatedAt(content)
       THEN Max(0, 20000 - RoundDiv(SecondsOld(content, t) * 1000, 2 * 3600))
       ELSE 0)
    + (IF ContentIdOf(content) \in DOMAIN preferences.content THEN 0 - 10000 ELSE 0)
    + noise

\* if preferences.get('active_hours', {}).get(str(current_hour), 0) > 0:
\*     score += 5
ActiveHourBonus(preferences, t) ==
    IF DictGet(preferences.active_hours, StrKey(CurrentHour(t)), 0) > 0
    THEN 5000
    ELSE 0

\* RecommendationEngine.score_content of server_production.py, in thousandths
production_score_content(content, preferences, following, t, noise) ==
    ProductionBase(content, preferences, following, t, noise)
        + ActiveHourBonus(preferences, t)

\* What the production get_recommendations computes for one candidate from
\* the behaviour read b and the follow read f
ProductionScored(b, f, content, t) ==
    [db |-> [f.db EXCEPT !.rng = @ + 1],
     behavior |-> b.ret,
     base |-> ProductionBase(content, compute_user_preferences(b.ret), f.ret, t,
                             RandomAt(f.db.rng)),
     ret |-> production_score_content(content, compute_user_preferences(b.ret), f.ret,
                                      t, RandomAt(f.db.rng))]

\* The follow read after the behaviour read b, and the score from both
ProductionWithBehavior(b, user_id, content, t, fail) ==
    ProductionScored(b, get_user_follows(b.db, user_id, t, "follows" \in fail), content, t)

\* The production get_recommendations for user_id up to the score of the
\* candidate content: behaviour read, follow read, preferences, score_content
ProductionScoreContent(user_id, content, fail) ==
    /\ Calls < MaxCalls
    /\ LET r == ProductionWithBehavior(
                    get_user_behavior(DB, user_id, now, "behavior" \in fail),
                    user_id, content, now, fail)
       IN  /\ Commit(r.db)
           /\ last' = [op |-> "production_score", n |-> last.n + 1,
                       user_id |-> user_id, content |-> content, fail |-> fail,
                       behavior |-> r.behavior, hour |-> CurrentHour(now),
                       base |-> r.base, ret |-> r.ret]
    /\ UNCHANGED <<now, Catalog, threads>>

\* Faults of a production request.
ProductionFaults == {{}, {"behavior"}, {"follows"}}

\* The candidates scored at time t.
ProductionRecords(t) ==
    {NewerPost(t), OlderPost(t), UnviewedVideo(t), BareRecord("u3")}

InitProduction ==
    \E s \in Streams : InitWith(CHOOSE c \in Catalogs : c.posts = <<>>, s)

NextProduction ==
    \/ Tick
    \/ \E u \in UserIds, content \in ProductionRecords(now), fail \in ProductionFaults :
          ProductionScoreContent(u, content, fail)

\* The scoring of the production server, one candidate at a time.
SpecProduction == InitProduction /\ [][NextProduction]_vars

\* ------------------------------------------------------------ concurrent learning

\* Each POST /api/learn adds engine.learn as a background task; engine.learn
\* is a plain function, so every task runs on a thread of the pool and the
\* tasks of different requests run concurrently.  A task is followed through
\* its calls: get_user_embedding, get_content_embedding, then the put_item and
\* the cache update of save_user_embedding.  The two statements of a write to
\* the user's cache entry are separate steps.  No lock is taken anywhere.

\* The embedding an earlier run of the server created first and stored.
PriorUserEmbedding == create_random_embedding(0)

\* Content ids whose embeddings earlier rankings stored.
StoredContentIds == {"p1", "p2"}

\* The embedding stored for content id c: the features of its post.
StoredContentEmbedding(c) ==
    create_content_embedding(
        Record(c, None, "u2", None, 10, 100, 2, NowStart - 3600, "image"),
        NowStart - 3600)

\* Action kinds of the concurrent tasks: LIKE, SAVE.
ConcActionTypes == {1, 4}

InitConc ==
    /\ threads = [th \in ThreadIds |-> Idle]
    /\ put_log = EmptyDict
    /\ cache = EmptyDict
    /\ cache_times = EmptyDict
    /\ user_table = [u \in {"u1"} |->
                       [userId |-> u, embedding |-> JsonDumps(PriorUserEmbedding),
                        updatedAt |-> NowStart - 3600]]
    /\ content_table = [c \in StoredContentIds |->
                          [contentId |-> c,
                           embedding |-> JsonDumps(StoredContentEmbedding(c)),
                           updatedAt |-> NowStart - 3600]]
    /\ posts_table = <<>>
    /\ videos_table = <<>>
    /\ follows_table = Follows
    /\ rng = 0
    /\ stream = [k \in 1..StreamLen |-> 0]
    /\ now = NowStart
    /\ last = [op |-> "init", n |-> 0]

\* background_tasks.add_task(engine.learn, user_id, content_id, action_type):
\* the task starts on thread th
Submit(th, user_id, content_id, action_type) ==
    /\ threads[th].pc = "idle"
    /\ threads' = [threads EXCEPT ![th] =
                     [pc |-> "get_user", user_id |-> user_id,
                      content_id |-> content_id, action_type |-> action_type]]
    /\ UNCHANGED <<cache, cache_times, user_table, content_table, rng, put_log,
                   now, Catalog, last>>

\* d with the insertion times (and the log of completed writes) of d0
WithTimesOf(d, d0) ==
    [d EXCEPT !.cache_times = d0.cache_times, !.put_log = d0.put_log]

\* user_emb = self.get_user_embedding(user_id), up to and including the
\* statement that puts the embedding read or created into self._cache
LearnGetUser(th) ==
    /\ threads[th].pc = "get_user"
    /\ LET r == get_user_embedding(DB, threads[th].user_id, now, FALSE, FALSE)
       IN  /\ Commit(WithTimesOf(r.db, DB))
           /\ threads' = [threads EXCEPT ![th] =
                            [pc |-> IF r.path = "cache" THEN "get_content"
                                    ELSE "get_user_time",
                             user_id |-> @.user_id,
                             content_id |-> @.content_id,
                             action_type |-> @.action_type, user_emb |-> r.ret]]
    /\ UNCHANGED <<now, Catalog, last>>

\* self._cache_times[cache_key] = time.time() of that cache write, after which
\* get_user_embedding returns
LearnGetUserTime(th) ==
    /\ threads[th].pc = "get_user_time"
    /\ Commit(CacheSetTime(DB, CacheKey("user_emb", threads[th].user_id),
                           threads[th].user_emb, now))
    /\ threads' = [threads EXCEPT ![th].pc = "get_content"]
    /\ UNCHANGED <<now, Catalog, last>>

\* content_emb = self.get_content_embedding(content_id, content)
LearnGetContent(th) ==
    /\ threads[th].pc = "get_content"
    /\ LET r == get_content_embedding(DB, threads[th].content_id, NoContent, now,
                                      FALSE, FALSE)
       IN  /\ Commit(r.db)
           /\ threads' = [threads EXCEPT ![th] =
                            [pc |-> "put_item", user_id |-> @.user_id,
                             content_id |-> @.content_id,
                             action_type |-> @.action_type, user_emb |-> @.user_emb,
                             content_emb |-> r.ret]]
    /\ UNCHANGED <<now, Catalog, last>>

\* updated_emb = self.neural.update_embedding(...), then the put_item of
\* save_user_embedding(user_id, updated_emb)
LearnPutItem(th) ==
    /\ threads[th].pc = "put_item"
    /\ LET updated_emb == update_embedding(threads[th].user_emb,
                                           threads[th].content_emb,
                                           ACTION_WEIGHTS(threads[th].action_type),
                                           LEARNING_RATE)
       IN  /\ Commit(PutUserItem(DB, threads[th].user_id, updated_emb, now))
           /\ threads' = [threads EXCEPT ![th] =
                            [pc |-> "cache_put", user_id |-> @.user_id,
                             content_id |-> @.content_id,
                             action_type |-> @.action_type,
                             updated_emb |-> updated_emb]]
    /\ UNCHANGED <<now, Catalog, last>>

\* self._cache[cache_key] = embedding of save_user_embedding
LearnCachePut(th) ==
    /\ threads[th].pc = "cache_put"
    /\ Commit(CacheSetPayload(DB, CacheKey("user_emb", threads[th].user_id),
                              threads[th].updated_emb, now))
    /\ threads' = [threads EXCEPT ![th].pc = "cache_time"]
    /\ UNCHANGED <<now, Catalog, last>>

\* self._cache_times[cache_key] = time.time() of save_user_embedding, after
\* which the task returns
LearnCacheTime(th) ==
    /\ threads[th].pc = "cache_time"
    /\ Commit(CacheSetTime(DB, CacheKey("user_emb", threads[th].user_id),
                           threads[th].updated_emb, now))
    /\ threads' = [threads EXCEPT ![th].pc = "done"]
    /\ UNCHANGED <<now, Catalog, last>>

NextConc ==
    \/ \E th \in ThreadIds, u \in UserIds, c \in StoredContentIds,
          a \in ConcActionTypes :
          Submit(th, u, c, a)
    \/ \E th \in ThreadIds : LearnGetUser(th)
    \/ \E th \in ThreadIds : LearnGetUserTime(th)
    \/ \E th \in ThreadIds : LearnGetContent(th)
    \/ \E th \in ThreadIds : LearnPutItem(th)
    \/ \E th \in ThreadIds : LearnCachePut(th)
    \/ \E th \in ThreadIds : LearnCacheTime(th)

\* Two learning tasks on the threads of the pool.
SpecConc == InitConc /\ [][NextConc]_vars

\* ------------------------------------------------------------ properties: concurrent learning

\* The interaction a finished task applied, applied to the embedding v.
Applied(v, th) ==
    update_embedding(v, StoredContentEmbedding(threads[th].content_id),
                     ACTION_WEIGHTS(threads[th].action_type), LEARNING_RATE)

\* C1: two applyInteraction calls for the same user that run concurrently
\* never lose an update: once both have completed, the stored user vector is
\* the result of applying both interactions, one after the other in some
\* order, to the vector the user had.
C1_NoLostUpdate ==
    (/\ threads["t1"].pc = "done"
     /\ threads["t2"].pc = "done"
     /\ threads["t1"].user_id = "u1"
     /\ threads["t2"].user_id = "u1")
    => JsonLoads(user_table["u1"].embedding) \in
          {Applied(Applied(PriorUserEmbedding, "t1"), "t2"),
           Applied(Applied(PriorUserEmbedding, "t2"), "t1")}

\* C19: when several saveUserVector calls for the same user run concurrently
\* and every store write succeeds, then once all of them have completed the
\* vector cached for the user equals the vector the store holds.
C19_CacheEqualsStore ==
    (/\ threads["t1"].pc = "done"
     /\ threads["t2"].pc = "done"
     /\ threads["t1"].user_id = threads["t2"].user_id)
    => cache[CacheKey("user_emb", threads["t1"].user_id)] =
          JsonLoads(user_table[threads["t1"].user_id].embedding)

\* C20: in every reachable state, under any interleaving of the operations
\* that populate the cache, every cache key that has a recorded insertion
\* time also has a payload.
C20_TimedKeyHasPayload == DOMAIN cache_times \subseteq DOMAIN cache

\* A task has put the first payload for a user's key into the cache and has
\* not yet recorded its insertion time, while the other task is at work on
\* the same user.
C20_BetweenPayloadAndTime ==
    \E th \in ThreadIds, other \in ThreadIds :
        /\ th # other
        /\ threads[th].pc = "get_user_time"
        /\ threads[other].pc \notin {"idle", "done"}
        /\ threads[other].user_id = threads[th].user_id
        /\ CacheKey("user_emb", threads[th].user_id) \in DOMAIN cache
        /\ CacheKey("user_emb", threads[th].user_id) \notin DOMAIN cache_times

\* ------------------------------------------------------------ properties: profile store

\* The cache key of the user embedding the last call read.
LastUserKey == CacheKey("user_emb", last.user_id)

\* C2: when the put_item inside saveUserVector fails, the error does not
\* reach the caller and the cache entry of that id still becomes the vector
\* being saved, so that the next read within the TTL returns it.
C2_FailedSaveStillCaches ==
    /\ (last.op = "learn" /\ "user_put" \in last.fail)
       => /\ IsCached(DB, LastUserKey, now)
          /\ cache[LastUserKey] = last.ret
    /\ (last.op = "get_user" /\ last.path = "create" /\ "user_create" \in last.fail)
       => /\ IsCached(DB, LastUserKey, now)
          /\ cache[LastUserKey] = last.ret

\* C3: getUserVector never returns a transient unsaved vector: a
\* getUserVector that directly follows a getUserVector for the same user
\* returns the same vector, whatever the outcomes of the store calls.
C3_RereadReturnsSame ==
    [][(/\ last.op = "get_user"
        /\ last'.op = "get_user"
        /\ last'.n = last.n + 1
        /\ last'.user_id = last.user_id)
       => last'.ret = last.ret]_vars

\* Whether a read of cache_key in this state is within the TTL of the latest
\* write to the key.
FreshWrite(cache_key) ==
    /\ cache_key \in DOMAIN put_log
    /\ now - put_log[cache_key].time < CACHE_TTL

\* A read of cache_key that took `path` and returned `ret` agrees with the
\* writes made so far: from the cache exactly when fresh, and then the payload
\* of the latest write.
ReadAgrees(cache_key, path, ret) ==
    /\ (path = "cache") <=> FreshWrite(cache_key)
    /\ FreshWrite(cache_key) => ret = put_log[cache_key].payload

C6_InitialVectorByIdAlone ==
    [][/\ (/\ last.op = "get_user" /\ last.path = "create"
           /\ last'.op = "get_user" /\ last'.path = "create"
           /\ last'.n = last.n + 1
           /\ last'.user_id = last.user_id)
          => last'.ret = last.ret
       /\ (/\ last.op = "learn" /\ last.content_path = "random"
           /\ last'.op = "learn" /\ last'.content_path = "random"
           /\ last'.n = last.n + 1
           /\ last'.content_id = last.content_id)
          => last'.content_emb = last.content_emb]_vars

\* ------------------------------------------------------------ properties: ranking

\* The last call was a ranking request that was answered with a ranking.
Ranked == last.op \in {"GET", "POST"} /\ last.status = 200

\* C4: getUserVector and getRecommendations, whatever the outcomes of their
\* store reads and writes, leave the vector the store holds for every
\* existing user unchanged; applyInteraction is the only mutator.
C4_OnlyLearnMutates ==
    [][(last'.op \in {"get_user", "GET", "POST"} /\ last'.n = last.n + 1)
       => \A u \in DOMAIN user_table :
             /\ u \in DOMAIN user_table'
             /\ user_table'[u].embedding = user_table[u].embedding]_vars

\* C7: no entry returned by getRecommendations(userId, ...) has an owner id
\* equal to userId.
C7_NoOwnContent ==
    Ranked => \A k \in 1..Len(last.ret) : last.ret[k].creatorId # last.user_id

\* A non-empty ranking was returned to a user who owns a post and a video of
\* the catalog.
C7_OwnerServed ==
    /\ Ranked
    /\ last.content_type = "all"
    /\ last.ret # <<>>
    /\ \E k \in 1..Len(posts_table) : posts_table[k].userId = last.user_id
    /\ \E k \in 1..Len(videos_table) : videos_table[k].creatorId = last.user_id

\* What identifies a candidate in a response: kind, content id and owner.
EntryKey(entry) == <<entry.type, entry.contentId, entry.creatorId>>

\* The candidates of the catalog in gather order, posts before videos.
Gathered ==
    LET all == Annotate(posts_table, "post") \o Annotate(videos_table, "video")
    IN  [k \in 1..Len(all) |->
            <<all[k].type, all[k].contentId, OrStr(all[k].userId, all[k].creatorId)>>]

\* Where the candidate of entry was gathered.
GatherIndex(entry) == CHOOSE k \in 1..Len(Gathered) : Gathered[k] = EntryKey(entry)

\* C8: the list returned is in non-increasing order of the returned score,
\* and two entries of equal score appear in the order in which their
\* candidates were gathered: posts before videos, each in catalog order.
C8_SortedStable ==
    Ranked =>
        \A i, j \in 1..Len(last.ret) :
            i < j =>
                /\ last.ret[i].score >= last.ret[j].score
                /\ last.ret[i].score = last.ret[j].score
                   => GatherIndex(last.ret[i]) < GatherIndex(last.ret[j])

\* A ranking returned a post and a video of equal score, and an entry of a
\* lower score after them.
C8_TieReturned ==
    /\ Ranked
    /\ \E i, j \in 1..Len(last.ret) :
          /\ i < j
          /\ last.ret[i].score = last.ret[j].score
          /\ last.ret[i].type = "post"
          /\ last.ret[j].type = "video"

\* C9: for every limit an entry point passes on, getRecommendations returns
\* exactly the min(limit, number of eligible candidates) highest-scored
\* entries, and never more than 100.
C9_ExactlyMinLimit ==
    Ranked =>
        /\ Len(last.ret) = Max(0, Min(last.limit, Len(last.scored)))
        /\ Len(last.ret) <= LIMIT_LE
        /\ \A k \in 1..Len(last.ret) :
              Cardinality({a \in 1..Len(last.scored) :
                              last.scored[a].score > last.ret[k].score}) < k

\* C10: a ranking request with a limit outside the allowed bounds, or with a
\* content-kind filter other than all / posts / videos, is rejected and is
\* never answered with a ranking.
C10_InvalidRejected ==
    (/\ last.op \in {"GET", "POST"}
     /\ \/ last.limit < LIMIT_GE
        \/ last.limit > LIMIT_LE
        \/ last.content_type \notin {"all", "posts", "videos"})
    => last.status # 200

\* ------------------------------------------------------------ properties: learning

\* C13: applyInteraction with an action kind outside the eight known kinds is
\* a no-op update: the vector stored for an existing user after the call
\* equals the vector stored before it.
C13_UnknownKindNoOp ==
    [][(/\ last'.op = "learn"
        /\ last'.n = last.n + 1
        /\ last'.action_type \notin 0..7
        /\ last'.user_id \in DOMAIN user_table)
       => user_table'[last'.user_id].embedding = user_table[last'.user_id].embedding]_vars

\* C18: the embedding counts reported equal the number of stored vectors:
\* after vectors were created or loaded for n user ids and m content ids,
\* get_embedding_counts returns (n, m).
C18_CountsStoredVectors ==
    last.op = "health"
    => last.ret = <<Cardinality(DOMAIN user_table), Cardinality(DOMAIN content_table)>>

\* ------------------------------------------------------------ properties: store failures

\* The request answered in this step called the store for `call`, reading what
\* is cached under cache_key, and the call raised.
ReadFailed(call, cache_key) == call \in last'.fail /\ ~IsCached(DB, cache_key, now)

\* The entries get_recommendations scores in this step when the follow query
\* gives the empty list.
ScoredWithoutFollows(u) ==
    RankWithFollows(u.ret, [db |-> u.db, ret |-> <<>>, cached |-> FALSE],
                    last'.user_id, last'.limit, last'.content_type, now,
                    last'.fail).scored

\* C11: getRecommendations never fails its caller because of the store: for
\* every combination of failing store calls it returns a list, a failed post
\* scan or video scan contributes no candidate, a failed follow query
\* contributes the empty follow list, and an empty catalog yields the empty
\* list.
C11_FailedReadsGiveEmpty ==
    [][(last'.op = "GET" /\ last'.n = last.n + 1) =>
          /\ last'.status = 200
          /\ Len(last'.ret) <= Len(last'.scored)
          /\ ReadFailed("posts", CacheKey("posts", "all")) =>
                \A k \in 1..Len(last'.scored) : last'.scored[k].type # "post"
          /\ ReadFailed("videos", CacheKey("videos", "all")) =>
                \A k \in 1..Len(last'.scored) : last'.scored[k].type # "video"
          /\ ReadFailed("follows", CacheKey("follows", last'.user_id)) =>
                last'.scored =
                    ScoredWithoutFollows(
                        get_user_embedding(DB, last'.user_id, now,
                                           "user_get" \in last'.fail,
                                           "user_create" \in last'.fail))
          /\ (posts_table = <<>> /\ videos_table = <<>>) => last'.ret = <<>>]_vars

\* A request whose user read and write, follow query and post scan all failed,
\* with posts in the table and nothing cached, was answered with a ranking of
\* the videos.
C11_AnsweredFromVideos ==
    /\ last.op = "GET"
    /\ last.status = 200
    /\ {"user_get", "user_create", "follows", "posts"} \subseteq last.fail
    /\ "videos" \notin last.fail
    /\ posts_table # <<>>
    /\ ~FreshWrite(CacheKey("posts", "all"))
    /\ ~FreshWrite(CacheKey("follows", last.user_id))
    /\ last.ret # <<>>

\* ------------------------------------------------------------ properties: functions

\* C12: scoring a candidate never raises, whatever the content record holds:
\* for a record in which a counter or the creation timestamp is absent, of
\* the wrong type or unparseable, score_content and the embedding
\* construction it triggers return a value.
C12_ScoringNeverRaises == last.op = "score" => ~last.raised

\* The vector the last update_embedding call computed before it looked at the
\* norm.
LastMoved == Moved(last.current, last.target, last.weight, last.lr)

\* C14 as stated: the vector update_embedding returns has Euclidean norm at
\* most 1.
C14_NormAtMostOne ==
    last.op = "update" => Dot(last.ret, last.ret) <= Scale * Scale

\* C14: the vector update_embedding returns has Euclidean norm at most
\* 1 + epsilon: a result whose norm exceeds 1 is rescaled to unit norm up to
\* rounding, keeping its direction, and any other result is returned unchanged.
C14_NormWithinEpsilon ==
    last.op = "update" =>
        /\ Dot(last.ret, last.ret) <= (Scale + NormEps) * (Scale + NormEps)
        /\ Dot(LastMoved, LastMoved) <= Scale * Scale => last.ret = LastMoved
        /\ Dot(LastMoved, LastMoved) > Scale * Scale =>
              /\ Dot(last.ret, last.ret) >= (Scale - NormEps) * (Scale - NormEps)
              /\ similarity(last.ret, LastMoved) >= 1000 - SimTol

\* An update whose result had a norm above 1 and was rescaled to a vector whose
\* norm is above 1 by rounding alone.
C14_RescaledAboveOne ==
    /\ last.op = "update"
    /\ Dot(LastMoved, LastMoved) > 2 * Scale * Scale
    /\ Dot(last.ret, last.ret) > Scale * Scale

\* C15 as stated: update_embedding with a positive weight and a learning rate
\* between 0 and 1 never decreases similarity(u, t), up to the resolution of
\* the arithmetic.
C15_SimilarityNeverDecreases ==
    (/\ last.op = "update"
     /\ last.weight > 0
     /\ last.lr > 0
     /\ last.lr < 10
     /\ last.current # last.target)
    => similarity(last.ret, last.target) >=
          similarity(last.current, last.target) - SimTol

\* C15: update_embedding with a positive weight and a learning rate between
\* 0 and 1 whose product is at most 1 (as for every positive weight of the
\* action table with the configured learning rate) never decreases
\* similarity(u, t), up to the resolution of the arithmetic.
C15_NeverDecreasesWithinUnitStep ==
    (/\ last.op = "update"
     /\ last.weight > 0
     /\ last.lr > 0
     /\ last.lr < 10
     /\ last.lr * last.weight <= Scale
     /\ last.current # last.target)
    => similarity(last.ret, last.target) >=
          similarity(last.current, last.target) - SimTol

\* A repeated update with the weight of an action of the table and the
\* configured learning rate that increased the similarity.
C15_RepeatedUpdateIncreased ==
    /\ last.op = "update"
    /\ last.n > 1
    /\ last.weight = ACTION_WEIGHTS(1)
    /\ last.lr = LEARNING_RATE
    /\ last.current # last.target
    /\ similarity(last.ret, last.target) >
          similarity(last.current, last.target) + SimTol

\* C16: for a user with no follows and two candidates with identical
\* counters, one created now and one 200 hours ago, the score of the newer
\* exceeds the score of the older by at least 10.
C16_NewerLeadsByTen ==
    last.op = "pair" => last.newer - last.older >= 10 * 1000

\* C17: every value of the vector create_content_embedding builds lies in
\* its documented range: code indices 0 to 7 and 30 to 63 within [0, 1], the
\* reserved indices 8, 9 and 15 to 29 equal to 0.
C17_FeaturesInRange ==
    (last.op = "features" /\ ~last.raised)
    => \A i \in Indices :
          /\ last.ret[i] >= 0
          /\ last.ret[i] <= Scale
          /\ (i - 1) \in ({8, 9} \cup (15..29)) => last.ret[i] = 0

\* ------------------------------------------------------------ properties: reads

\* What the store gives for the read of cache_key at time t.
StoreItems(cache_key, t) ==
    CASE cache_key[1] = "posts" -> Take(posts_table, POSTS_SCAN_LIMIT)
      [] cache_key[1] = "videos" -> Take(videos_table, VIDEOS_SCAN_LIMIT)
      [] cache_key[1] = "follows" ->
           IF cache_key[2] \in DOMAIN follows_table THEN follows_table[cache_key[2]]
           ELSE <<>>
      [] OTHER -> BehaviorQuery(cache_key[2][1], t)

\* C21: a catalog, follow or behaviour read that fails on the store returns
\* the empty collection and leaves the cache unchanged: no entry is written
\* for the key, so the next read of the key queries the store again instead
\* of serving a cached empty result.
C21_FailedReadNotCached ==
    [][(last'.op = "read" /\ last'.n = last.n + 1) =>
          /\ last'.path = "failed" =>
                /\ last'.ret = <<>>
                /\ cache' = cache
                /\ cache_times' = cache_times
                /\ ~IsCached([cache_times |-> cache_times'], last'.key, now')
          /\ (last'.prev = "failed" /\ ~last'.fail) =>
                /\ last'.path = "store"
                /\ last'.ret = StoreItems(last'.key, now)]_vars

\* A read that failed was followed by a read of the same key that the store
\* answered with its items.
C21_RereadAfterFailure ==
    /\ last.op = "read"
    /\ last.prev = "failed"
    /\ last.path = "store"
    /\ last.ret # <<>>
    /\ last.key \in DOMAIN cache

\* ------------------------------------------------------------ properties: production scoring

\* The behaviour history the last request read has an interaction recorded at
\* the hour of day of the request.
ActiveAtCurrentHour ==
    \E k \in 1..Len(last.behavior) : HourOfItem(last.behavior[k]) = last.hour

\* C22: in the production variant the score of a candidate includes the +5
\* active-hour bonus whenever the behaviour history holds an interaction
\* recorded at the current hour of day, and includes no such bonus when it
\* holds none.
C22_ActiveHourBonusGiven ==
    last.op = "production_score" =>
        last.ret = last.base + (IF ActiveAtCurrentHour THEN 5000 ELSE 0)

====
